---- MODULE Spec2Model ----
\* A model of the glacier_mapping utilities: the array helpers of
\* src/utils.py (slice_image, get_snow_index, get_debris_glaciers,
\* merge_mask_snow_i, get_bg) and the training wrapper of src/utils/frame.py
\* (Framework).  Arrays are small explicit matrices; numpy's slicing, dtype
\* and comparison rules are written out as operators.
EXTENDS Integers, Sequences, FiniteSets, TLC

\* ---------------------------------------------------------------------------
\* Bounds of the model
\* ---------------------------------------------------------------------------
\* largest image height and width handed to slice_image
MaxH == 4
MaxW == 4
\* largest tile height and width handed to slice_image
MaxTile == 3
\* largest channel count of a 3-D image or mask
MaxC == 2
\* number of pixels of the images and masks handed to the index functions
NPix == 2
\* number of optimize calls made on one Framework
MaxCalls == 2
\* largest epoch number handed to save
MaxEpoch == 1
\* largest batch size and channel count of the tensors handed to
\* calculate_metrics
MaxBatch == 2

VARIABLES
    \* slice_image: its arguments, its locals and its position
    img, size, h_slices, w_slices, i, j, slices, spc,
    \* the index and mask functions: the call made and the value returned
    ucall, uret,
    \* Framework: the position of the caller, the constructor's arguments,
    \* the object's attributes and the error raised by the constructor
    fpc, opts, self, ferror,
    \* Framework.optimize: the call in progress, the gradients held by the
    \* parameters, the optimizer steps taken, the calls made
    opt, grads, steps, ncalls,
    \* Framework.save: the epochs whose checkpoint files exist
    saved,
    \* Framework.calculate_metrics: its arguments and locals
    cm

svars == <<img, size, h_slices, w_slices, i, j, slices, spc>>
uvars == <<ucall, uret>>
fvars == <<fpc, opts, self, ferror, opt, grads, steps, ncalls, saved, cm>>
vars == <<img, size, h_slices, w_slices, i, j, slices, spc, ucall, uret,
          fpc, opts, self, ferror, opt, grads, steps, ncalls, saved, cm>>

Max(a, b) == IF a >= b THEN a ELSE b
Min(a, b) == IF a <= b THEN a ELSE b

\* ---------------------------------------------------------------------------
\* Arrays of the index and mask functions (src/utils.py 22-60)
\* ---------------------------------------------------------------------------
\* An array is [dtype, ndim, data].  A "bool" or "int" array holds integers
\* (False and True are 0 and 1); a "float" array, and the snow index of an
\* "int" image, holds fractions <<n, d>> in lowest terms with d > 0, or with
\* d = 0 for the results of a division by zero (<<0, 0>> is nan, <<1, 0>>
\* and <<-1, 0>> are +inf and -inf).  The spatial axes are flattened to
\* NPix pixels.
Pixels == 1..NPix

Abs(x) == IF x < 0 THEN 0 - x ELSE x
Sign(x) == IF x > 0 THEN 1 ELSE IF x < 0 THEN 0 - 1 ELSE 0

RECURSIVE GCD(_, _)
GCD(a, b) == IF b = 0 THEN a ELSE GCD(b, a % b)

\* the fraction n / d of numpy's true division
Frac(n, d) ==
    IF d = 0 THEN <<Sign(n), 0>>
    ELSE LET g == GCD(Abs(n), Abs(d))
         IN <<(Sign(d) * n) \div g, Abs(d) \div g>>

\* q > t/10 and q == k as numpy compares: every comparison with nan is False
FracGreater(q, tenths) ==
    IF q[2] = 0 THEN q[1] > 0 ELSE q[1] * 10 > tenths * q[2]
FracEquals(q, k) == q[2] # 0 /\ q[1] = k * q[2]

\* a float stored into an array of the given dtype: an integer array keeps
\* the value truncated toward zero
CastFrac(dtype, q) ==
    IF dtype = "float" THEN q
    ELSE <<Sign(q[1]) * (Abs(q[1]) \div q[2]), 1>>

\* an integer stored into a mask-like array of the given dtype: a boolean
\* array keeps only whether the value is nonzero
CastInt(dtype, v) ==
    IF dtype = "bool" THEN (IF v # 0 THEN 1 ELSE 0) ELSE v

\* the (band 1, band 4) values a pixel may hold: zero sums (0+0 and 1-1),
\* index 1, -1, 0, 1/3 and -1/3
BandPairs == {<<0, 0>>, <<1, 0 - 1>>, <<1, 0>>, <<0, 1>>, <<1, 1>>, <<2, 1>>, <<1, 2>>}

\* a channels-first image with bands 0..4; only bands 1 and 4 are read
SatImage(dtype, pairs) ==
    [dtype |-> dtype, ndim |-> 3,
     data |-> [b \in 0..4 |-> [p \in Pixels |->
                 IF b = 1 THEN pairs[p][1] ELSE IF b = 4 THEN pairs[p][2] ELSE 0]]]

SatImages == {SatImage(d, pairs) : d \in {"float", "int"}, pairs \in [Pixels -> BandPairs]}

\* 2-D class masks: boolean, or integer with the classes 0, 1, 2
Masks2D ==
    {[dtype |-> "bool", ndim |-> 2, data |-> m] : m \in [Pixels -> 0..1]}
    \cup {[dtype |-> "int", ndim |-> 2, data |-> m] : m \in [Pixels -> 0..2]}

\* 3-D masks (H, W, C): one 0/1 value per pixel and channel
Masks3D ==
    UNION {{[dtype |-> d, ndim |-> 3, data |-> m] : m \in [Pixels -> [1..c -> 0..1]]}
           : d \in {"bool", "int"}, c \in 1..MaxC}

\* thresh: None, or a number given in tenths (-0.5, 0, 0.6)
NoThresh == [given |-> FALSE, tenths |-> 0]
Threshs == {NoThresh} \cup {[given |-> TRUE, tenths |-> t] : t \in {0 - 5, 0, 6}}

NoArray == [dtype |-> "none", ndim |-> 0, data |-> <<>>]

\* (get_snow_index without the zero-denominator mask of lines 26 and 28)
get_snow_index_unmasked(im, thresh) ==
    LET values == [p \in Pixels |->
                     Frac(im.data[1][p] - im.data[4][p], im.data[1][p] + im.data[4][p])]
    IN IF thresh.given
       THEN [dtype |-> "bool", ndim |-> 2,
             data |-> [p \in Pixels |->
                         IF FracGreater(values[p], thresh.tenths) THEN 1 ELSE 0]]
       ELSE [dtype |-> im.dtype, ndim |-> 2, data |-> values]

\* get_snow_index, lines 22-32
get_snow_index(im, thresh) ==
    LET mask == [p \in Pixels |-> (im.data[1][p] + im.data[4][p]) # 0]
        values == [p \in Pixels |->
                     Frac(im.data[1][p] - im.data[4][p], im.data[1][p] + im.data[4][p])]
        index == [p \in Pixels |->
                     IF mask[p] THEN CastFrac(im.dtype, values[p]) ELSE <<0, 1>>]
    IN IF thresh.given
       THEN [dtype |-> "bool", ndim |-> 2,
             data |-> [p \in Pixels |->
                         IF FracGreater(index[p], thresh.tenths) THEN 1 ELSE 0]]
       ELSE [dtype |-> im.dtype, ndim |-> 2, data |-> index]

\* snow_i == k at pixel p, for a boolean or a numeric snow index
SnowEquals(snow_i, p, k) ==
    IF snow_i.dtype = "bool" THEN snow_i.data[p] = k
    ELSE FracEquals(snow_i.data[p], k)

\* get_debris_glaciers, lines 34-40
get_debris_glaciers(im, mask, thresh) ==
    LET snow_i == get_snow_index(im, thresh)
    IN [dtype |-> mask.dtype, ndim |-> 2,
        data |-> [p \in Pixels |->
                    IF SnowEquals(snow_i, p, 0) /\ mask.data[p] = 1
                    THEN CastInt(mask.dtype, 1) ELSE 0]]

\* merge_mask_snow_i, lines 43-49
merge_mask_snow_i(im, mask, thresh) ==
    LET snow_i == get_snow_index(im, thresh)
        first == [p \in Pixels |->
                    IF SnowEquals(snow_i, p, 1) /\ mask.data[p] = 1
                    THEN CastInt(mask.dtype, 1) ELSE 0]
    IN [dtype |-> mask.dtype, ndim |-> 2,
        data |-> [p \in Pixels |->
                    IF SnowEquals(snow_i, p, 0) /\ mask.data[p] = 1
                    THEN CastInt(mask.dtype, 2) ELSE first[p]]]

\* np.logical_or.reduce(mask, axis=2) and np.logical_not: boolean arrays
LogicalOrReduce(mask) ==
    [p \in Pixels |-> IF \E k \in DOMAIN mask.data[p] : mask.data[p][k] # 0 THEN 1 ELSE 0]
LogicalNot(row) == [p \in Pixels |-> IF row[p] = 0 THEN 1 ELSE 0]

\* (get_bg with the two channels stacked in the other order)
get_bg_swapped(mask) ==
    LET fg == IF mask.ndim = 2 THEN mask.data ELSE LogicalOrReduce(mask)
    IN [dtype |-> IF mask.ndim = 2 THEN mask.dtype ELSE "bool", ndim |-> 3,
        data |-> <<LogicalNot(fg), fg>>]

\* get_bg, lines 51-60: np.stack gives the boolean background the dtype of
\* the foreground, which keeps False and True as 0 and 1
get_bg(mask) ==
    LET fg == IF mask.ndim = 2 THEN mask.data ELSE LogicalOrReduce(mask)
    IN [dtype |-> IF mask.ndim = 2 THEN mask.dtype ELSE "bool", ndim |-> 3,
        data |-> <<fg, LogicalNot(fg)>>]

NoCall == [fn |-> "none", img |-> NoArray, mask |-> NoArray, thresh |-> NoThresh]

CallGetSnowIndex ==
    /\ ucall.fn = "none"
    /\ \E im \in SatImages, th \in Threshs :
          /\ ucall' = [fn |-> "get_snow_index", img |-> im, mask |-> NoArray, thresh |-> th]
          /\ uret' = get_snow_index(im, th)

CallGetDebrisGlaciers ==
    /\ ucall.fn = "none"
    /\ \E im \in SatImages, m \in Masks2D, th \in Threshs :
          /\ ucall' = [fn |-> "get_debris_glaciers", img |-> im, mask |-> m, thresh |-> th]
          /\ uret' = get_debris_glaciers(im, m, th)

CallMergeMaskSnowI ==
    /\ ucall.fn = "none"
    /\ \E im \in SatImages, m \in Masks2D, th \in Threshs :
          /\ ucall' = [fn |-> "merge_mask_snow_i", img |-> im, mask |-> m, thresh |-> th]
          /\ uret' = merge_mask_snow_i(im, m, th)

CallGetBg ==
    /\ ucall.fn = "none"
    /\ \E m \in Masks2D \cup Masks3D :
          /\ ucall' = [fn |-> "get_bg", img |-> NoArray, mask |-> m, thresh |-> NoThresh]
          /\ uret' = get_bg(m)



\* ---------------------------------------------------------------------------
\* Framework (src/utils/frame.py)
\* ---------------------------------------------------------------------------
\* model_opts.name as configured: the two recognized names and two others
ModelNames == {"Unet", "UnetDropout", "unet", "FPN"}

\* reg_opts: the configured penalties, in the order of the dict's keys
RegOpts == {<<>>, <<"l1_reg">>, <<"l1_reg", "l2_reg">>}

\* metrics_opts: the configured metrics in the order of the dict's items,
\* each with or without a "threshold" option
Metric(k, t) == [name |-> k, threshold |-> t]
MetricOpts ==
    {<<Metric("IoU", FALSE)>>,
     <<Metric("IoU", TRUE)>>,
     <<Metric("IoU", FALSE), Metric("precision", FALSE)>>,
     <<Metric("IoU", TRUE), Metric("precision", FALSE)>>,
     <<Metric("IoU", FALSE), Metric("precision", TRUE), Metric("recall", FALSE)>>}

NoOpts == [name |-> "none", reg |-> <<>>, metrics |-> <<>>]
NoSelf == [model_def |-> "none", model |-> FALSE, optimizer |-> FALSE,
           lrscheduler |-> FALSE]
NoOptimize == [call |-> 0, trace |-> <<>>, graph |-> 0, loss |-> <<>>]

\* (the model selection with unrecognized names falling back to Unet)
SelectModelDefault(name) ==
    IF name = "UnetDropout" THEN "src.models.unet_dropout.UnetDropout"
    ELSE "src.models.unet.Unet"

\* Lines 34-39: the model definition selected for a name, or the error
SelectModel(name) ==
    IF name = "Unet" THEN "src.models.unet.Unet"
    ELSE IF name = "UnetDropout" THEN "src.models.unet_dropout.UnetDropout"
    ELSE "ValueError: Unknown model name"

\* Lines 29-39: device, loss function, then the model definition by name
FrameworkSelectModel ==
    /\ fpc = "new"
    /\ LET def == SelectModel(opts.name)
       IN IF def = "ValueError: Unknown model name"
          THEN /\ ferror' = def
               /\ fpc' = "failed"
               /\ UNCHANGED self
          ELSE /\ self' = [self EXCEPT !.model_def = def]
               /\ fpc' = "selected"
               /\ UNCHANGED ferror
    /\ UNCHANGED <<opts, opt, grads, steps, ncalls, saved, cm>>

\* Line 41: the model is built and moved to the device
FrameworkCreateModel ==
    /\ fpc = "selected"
    /\ self' = [self EXCEPT !.model = TRUE]
    /\ fpc' = "model_built"
    /\ UNCHANGED <<opts, ferror, opt, grads, steps, ncalls, saved, cm>>

\* Lines 42-43: the optimizer over the model's parameters
FrameworkCreateOptimizer ==
    /\ fpc = "model_built"
    /\ self' = [self EXCEPT !.optimizer = TRUE]
    /\ fpc' = "optimizer_built"
    /\ UNCHANGED <<opts, ferror, opt, grads, steps, ncalls, saved, cm>>

\* Lines 44-48: the LR scheduler, then the options are stored
FrameworkCreateScheduler ==
    /\ fpc = "optimizer_built"
    /\ self' = [self EXCEPT !.lrscheduler = TRUE]
    /\ fpc' = "ready"
    /\ UNCHANGED <<opts, ferror, opt, grads, steps, ncalls, saved, cm>>

\* (zero_grad leaving the accumulated gradients in place)
ZeroGradKeeps(g) == g

\* Line 58, optimizer.zero_grad(): the parameters hold no gradient
ZeroGrad(g) == <<>>

\* Line 61, loss.backward(): the gradient of the graph built for a call is
\* added to what the parameters hold
Backward(g, call) == Append(g, call)

\* Lines 91-105, calc_loss: the base loss, then one penalty per key of
\* reg_opts added to it in turn
calc_loss(reg) == <<"loss_fn">> \o reg

\* Lines 51-56: optimize is entered, x and y are permuted and moved
OptimizeCall ==
    /\ fpc = "ready"
    /\ ncalls < MaxCalls
    /\ ncalls' = ncalls + 1
    /\ opt' = [call |-> ncalls + 1, trace |-> <<>>, graph |-> 0, loss |-> <<>>]
    /\ fpc' = "opt_called"
    /\ UNCHANGED <<opts, self, ferror, grads, steps, saved, cm>>

\* Line 58
OptimizeZeroGrad ==
    /\ fpc = "opt_called"
    /\ grads' = ZeroGrad(grads)
    /\ opt' = [opt EXCEPT !.trace = Append(@, "zero_grad")]
    /\ fpc' = "opt_zeroed"
    /\ UNCHANGED <<opts, self, ferror, steps, ncalls, saved, cm>>

\* Line 59: the forward pass builds the graph of this call
OptimizeForward ==
    /\ fpc = "opt_zeroed"
    /\ opt' = [opt EXCEPT !.trace = Append(@, "forward"), !.graph = opt.call]
    /\ fpc' = "opt_forward"
    /\ UNCHANGED <<opts, self, ferror, grads, steps, ncalls, saved, cm>>

\* Line 60
OptimizeCalcLoss ==
    /\ fpc = "opt_forward"
    /\ opt' = [opt EXCEPT !.trace = Append(@, "calc_loss"), !.loss = calc_loss(opts.reg)]
    /\ fpc' = "opt_loss"
    /\ UNCHANGED <<opts, self, ferror, grads, steps, ncalls, saved, cm>>

\* Line 61
OptimizeBackward ==
    /\ fpc = "opt_loss"
    /\ grads' = Backward(grads, opt.graph)
    /\ opt' = [opt EXCEPT !.trace = Append(@, "backward"), !.graph = 0]
    /\ fpc' = "opt_backward"
    /\ UNCHANGED <<opts, self, ferror, steps, ncalls, saved, cm>>

\* Line 62: optimizer.step() applies the gradients the parameters hold
OptimizeStep ==
    /\ fpc = "opt_backward"
    /\ steps' = Append(steps, [call |-> opt.call, grads |-> grads])
    /\ opt' = [opt EXCEPT !.trace = Append(@, "step")]
    /\ fpc' = "opt_stepped"
    /\ UNCHANGED <<opts, self, ferror, grads, ncalls, saved, cm>>

\* Line 63
OptimizeReturn ==
    /\ fpc = "opt_stepped"
    /\ fpc' = "ready"
    /\ UNCHANGED <<opts, self, ferror, opt, grads, steps, ncalls, saved, cm>>

\* Lines 83-89, infer: a forward pass under no_grad; no graph is built
Infer ==
    /\ fpc = "ready"
    /\ opt' = [call |-> 0, trace |-> <<"forward_no_grad">>, graph |-> 0, loss |-> <<>>]
    /\ UNCHANGED <<fpc, opts, self, ferror, grads, steps, ncalls, saved, cm>>

\* Lines 71-81, save: the model's and the optimizer's state go to
\* model_<epoch>.pt and optim_<epoch>.pt
Save ==
    /\ fpc = "ready"
    /\ \E epoch \in 1..MaxEpoch : saved' = saved \cup {epoch}
    /\ opt' = [call |-> 0, trace |-> <<"save_model", "save_optimizer">>,
               graph |-> 0, loss |-> <<>>]
    /\ UNCHANGED <<fpc, opts, self, ferror, grads, steps, ncalls, cm>>

\* A tensor of calculate_metrics: its shape, and how many times the
\* caller's argument was indexed to reach it (0: the argument itself, 1: one
\* of its batch items, 2: one channel of a batch item, ...).
Tensor(dims, depth) == [dims |-> dims, depth |-> depth]
NoTensor == Tensor(<<>>, 0)

\* one item of iterating a tensor along its first axis
Item(t) == Tensor(Tail(t.dims), t.depth + 1)

\* the shapes (B, C, H, W) of the y_hat and y handed to calculate_metrics
Shapes == {<<b, c, 2, 3>> : b \in 1..MaxBatch, c \in 1..MaxBatch}

NoZip == [n |-> 0, y |-> NoTensor, y_hat |-> NoTensor]
NoMetrics ==
    [pc |-> "none", arg |-> <<>>, y |-> NoTensor, y_hat |-> NoTensor,
     mi |-> 0, outer |-> NoZip, bi |-> 0, inner |-> NoZip, ci |-> 0,
     c_metric |-> <<>>, b_metric |-> <<>>, results |-> <<>>, evals |-> <<>>,
     error |-> "none"]

\* zip(a, b): both tensors are iterated along their first axis, up to the
\* shorter one
Zip(a, b) == [n |-> Min(a.dims[1], b.dims[1]), y |-> a, y_hat |-> b]

\* Lines 118-125: metric_fun is looked up and called in the branch taken
\* when the metric has no "threshold" option
Evaluates(metric) == ~metric.threshold

\* Lines 107-111: calculate_metrics is entered with y_hat and y
CalculateMetricsCall ==
    /\ fpc = "ready"
    /\ \E shape \in Shapes :
          cm' = [NoMetrics EXCEPT !.pc = "metric", !.arg = shape,
                                  !.y = Tensor(shape, 0), !.y_hat = Tensor(shape, 0),
                                  !.mi = 1]
    /\ fpc' = "metrics"
    /\ UNCHANGED <<opts, self, ferror, opt, grads, steps, ncalls, saved>>

\* Lines 112-114: the next metric, b_metric = [] and zip(y, y_hat) over
\* what y and y_hat name now; line 128 when the metrics are exhausted
CalculateMetricsNextMetric ==
    /\ fpc = "metrics"
    /\ cm.pc = "metric"
    /\ IF cm.mi > Len(opts.metrics)
       THEN cm' = [cm EXCEPT !.pc = "done"]
       ELSE IF Len(cm.y.dims) = 0 \/ Len(cm.y_hat.dims) = 0
       THEN cm' = [cm EXCEPT !.pc = "raised",
                             !.error = "TypeError: iteration over a 0-d tensor"]
       ELSE cm' = [cm EXCEPT !.b_metric = <<>>, !.outer = Zip(cm.y, cm.y_hat),
                             !.bi = 1, !.pc = "batch"]
    /\ UNCHANGED <<fpc, opts, self, ferror, opt, grads, steps, ncalls, saved>>

\* Lines 114-116: the next batch item, c_metric = [] and
\* zip(batch_y, batch_y_hat)
CalculateMetricsNextBatch ==
    /\ fpc = "metrics"
    /\ cm.pc = "batch"
    /\ IF cm.bi > cm.outer.n
       THEN cm' = [cm EXCEPT !.mi = cm.mi + 1, !.pc = "metric"]
       ELSE LET batch_y == Item(cm.outer.y)
                batch_y_hat == Item(cm.outer.y_hat)
            IN IF Len(batch_y.dims) = 0 \/ Len(batch_y_hat.dims) = 0
               THEN cm' = [cm EXCEPT !.pc = "raised",
                                     !.error = "TypeError: iteration over a 0-d tensor"]
               ELSE cm' = [cm EXCEPT !.c_metric = <<>>,
                                     !.inner = Zip(batch_y, batch_y_hat),
                                     !.ci = 1, !.pc = "channel"]
    /\ UNCHANGED <<fpc, opts, self, ferror, opt, grads, steps, ncalls, saved>>

\* Lines 116-127: the body for the next channel.  y and y_hat are assigned
\* (the names of the arguments); the metric is evaluated and the three
\* lists are appended to where Evaluates says so.
CalculateMetricsNextChannel ==
    /\ fpc = "metrics"
    /\ cm.pc = "channel"
    /\ IF cm.ci > cm.inner.n
       THEN cm' = [cm EXCEPT !.bi = cm.bi + 1, !.pc = "batch"]
       ELSE LET channel_wise_y == Item(cm.inner.y)
                channel_wise_y_hat == Item(cm.inner.y_hat)
                metric == opts.metrics[cm.mi]
                c_metric == Append(cm.c_metric, <<cm.mi, cm.bi, cm.ci>>)
                b_metric == Append(cm.b_metric, Len(c_metric))
            IN IF Evaluates(metric)
               THEN cm' = [cm EXCEPT
                             !.y = channel_wise_y,
                             !.y_hat = channel_wise_y_hat,
                             !.evals = Append(@, [metric |-> cm.mi, b |-> cm.bi,
                                                  c |-> cm.ci,
                                                  depth |-> channel_wise_y.depth]),
                             !.c_metric = c_metric,
                             !.b_metric = b_metric,
                             !.results = Append(@, [metric |-> cm.mi,
                                                    summed |-> Len(b_metric)]),
                             !.ci = cm.ci + 1]
               ELSE cm' = [cm EXCEPT
                             !.y = channel_wise_y,
                             !.y_hat = channel_wise_y_hat,
                             !.ci = cm.ci + 1]
    /\ UNCHANGED <<fpc, opts, self, ferror, opt, grads, steps, ncalls, saved>>

\* Line 128 (or the exception leaving the method): back in the caller
CalculateMetricsReturn ==
    /\ fpc = "metrics"
    /\ cm.pc \in {"done", "raised"}
    /\ cm' = NoMetrics
    /\ fpc' = "ready"
    /\ UNCHANGED <<opts, self, ferror, opt, grads, steps, ncalls, saved>>

\* ---------------------------------------------------------------------------
\* slice_image (src/utils.py 78-103)
\* ---------------------------------------------------------------------------

\* The value stored at row r, column c (0-based) of an h x w image: every
\* position holds a different value >= 1, so 0 never occurs in an input.
\* A 3-D image holds, at each position, the tuple of its channel values.
PixelValue(w, c3, r, c) ==
    IF c3 = 0 THEN r * w + c + 1
    ELSE [k \in 1..c3 |-> (r * w + c) * c3 + k]

\* An input array: ndim 2 with shape (h, w), or ndim 3 with shape (h, w, c).
\* data[r + 1][c + 1] is the element at 0-based position (r, c).
MakeImage(nd, h, w, c3) ==
    [ndim |-> nd,
     shape |-> IF nd = 2 THEN <<h, w>> ELSE <<h, w, c3>>,
     data |-> [r \in 1..h |-> [c \in 1..w |-> PixelValue(w, c3, r - 1, c - 1)]]]

Images ==
    {MakeImage(2, h, w, 0) : h \in 1..MaxH, w \in 1..MaxW}
    \cup {MakeImage(3, h, w, c) : h \in 1..MaxH, w \in 1..MaxW, c \in 1..MaxC}

Sizes == (1..MaxTile) \X (1..MaxTile)

\* (Ceil with the quotient rounded down, which drops the partial last tile)
CeilRoundsDown(a, b) == a \div b
\* (Ceil as quotient plus one, which adds a tile when b divides a)
CeilPlusOne(a, b) == (a \div b) + 1

\* math.ceil(a / b) for positive integers
Ceil(a, b) == (a + b - 1) \div b

\* Python's adjustment of one slice bound x against an axis of length n:
\* a negative bound counts from the end and is clamped at 0, a bound past
\* the end is clamped at n.
AdjustIndex(n, x) ==
    IF x < 0 THEN Max(x + n, 0) ELSE Min(x, n)

\* The first index and the length of a[start:stop] on an axis of length n.
SliceStart(n, start, stop) == AdjustIndex(n, start)
SliceLen(n, start, stop) ==
    Max(AdjustIndex(n, stop) - AdjustIndex(n, start), 0)

\* img[start_i:end_i, start_j:end_j] (and [..., :] for a 3-D array): a view
\* of the array beginning at (r0, c0), with its shape and its elements.
SliceView(a, start_i, end_i, start_j, end_j) ==
    LET h == a.shape[1]
        w == a.shape[2]
        r0 == SliceStart(h, start_i, end_i)
        nr == SliceLen(h, start_i, end_i)
        c0 == SliceStart(w, start_j, end_j)
        nc == SliceLen(w, start_j, end_j)
    IN [r0 |-> r0, c0 |-> c0,
        shape |-> IF a.ndim = 2 THEN <<nr, nc>> ELSE <<nr, nc, a.shape[3]>>,
        data |-> [r \in 1..nr |-> [c \in 1..nc |-> a.data[r0 + r][c0 + c]]]]

\* Lines 90-97: the start of the window of tile index k on an axis of
\* length n with tile length t; the last window is moved to start at -t.
WindowStart(n, t, k) == IF (k + 1) * t > n THEN 0 - t ELSE k * t
WindowEnd(n, t, k) == (k + 1) * t

\* Lines 90-101: the tile appended for loop indices (ii, jj).
TileAt(a, sz, ii, jj) ==
    SliceView(a,
              WindowStart(a.shape[1], sz[1], ii), WindowEnd(a.shape[1], sz[1], ii),
              WindowStart(a.shape[2], sz[2], jj), WindowEnd(a.shape[2], sz[2], jj))

InitSlice ==
    /\ img \in Images
    /\ size \in Sizes
    /\ h_slices = 0
    /\ w_slices = 0
    /\ i = 0
    /\ j = 0
    /\ slices = <<>>
    /\ spc = "start"
    /\ ucall = NoCall
    /\ uret = NoArray
    /\ fpc = "none"
    /\ opts = NoOpts
    /\ self = NoSelf
    /\ ferror = "none"
    /\ opt = NoOptimize
    /\ grads = <<>>
    /\ steps = <<>>
    /\ ncalls = 0
    /\ saved = {}
    /\ cm = NoMetrics

\* Lines 79-87: read the shape, count the tiles per axis, start the loops.
SliceImageStart ==
    /\ spc = "start"
    /\ h_slices' = Ceil(img.shape[1], size[1])
    /\ w_slices' = Ceil(img.shape[2], size[2])
    /\ slices' = <<>>
    /\ i' = 0
    /\ j' = 0
    /\ spc' = "loop"
    /\ UNCHANGED <<img, size>>

\* Lines 88-101: one pass of the inner loop body, then the loop counters.
SliceImageIter ==
    /\ spc = "loop"
    /\ i < h_slices
    /\ slices' = Append(slices, TileAt(img, size, i, j))
    /\ IF j + 1 < w_slices
       THEN /\ j' = j + 1
            /\ i' = i
       ELSE /\ j' = 0
            /\ i' = i + 1
    /\ UNCHANGED <<img, size, h_slices, w_slices, spc>>

\* Line 103: both loops are exhausted, the list is returned.
SliceImageReturn ==
    /\ spc = "loop"
    /\ i = h_slices
    /\ spc' = "done"
    /\ UNCHANGED <<img, size, h_slices, w_slices, i, j, slices>>

NextSlice ==
    \/ SliceImageStart /\ UNCHANGED <<uvars, fvars>>
    \/ SliceImageIter /\ UNCHANGED <<uvars, fvars>>
    \/ SliceImageReturn /\ UNCHANGED <<uvars, fvars>>

SpecSlice == InitSlice /\ [][NextSlice]_vars

\* no call made yet; slice_image is not running
InitUtils ==
    /\ ucall = NoCall
    /\ uret = NoArray
    /\ img = MakeImage(2, 1, 1, 0)
    /\ size = <<1, 1>>
    /\ h_slices = 0
    /\ w_slices = 0
    /\ i = 0
    /\ j = 0
    /\ slices = <<>>
    /\ spc = "idle"
    /\ fpc = "none"
    /\ opts = NoOpts
    /\ self = NoSelf
    /\ ferror = "none"
    /\ opt = NoOptimize
    /\ grads = <<>>
    /\ steps = <<>>
    /\ ncalls = 0
    /\ saved = {}
    /\ cm = NoMetrics

NextUtils ==
    \/ CallGetSnowIndex /\ UNCHANGED <<svars, fvars>>
    \/ CallGetDebrisGlaciers /\ UNCHANGED <<svars, fvars>>
    \/ CallMergeMaskSnowI /\ UNCHANGED <<svars, fvars>>
    \/ CallGetBg /\ UNCHANGED <<svars, fvars>>

SpecUtils == InitUtils /\ [][NextUtils]_vars

\* a Framework about to be constructed from its options
InitFrame ==
    /\ img = MakeImage(2, 1, 1, 0)
    /\ size = <<1, 1>>
    /\ h_slices = 0
    /\ w_slices = 0
    /\ i = 0
    /\ j = 0
    /\ slices = <<>>
    /\ spc = "idle"
    /\ ucall = NoCall
    /\ uret = NoArray
    /\ fpc = "new"
    /\ opts \in [name : ModelNames, reg : RegOpts, metrics : MetricOpts]
    /\ self = NoSelf
    /\ ferror = "none"
    /\ opt = NoOptimize
    /\ grads = <<>>
    /\ steps = <<>>
    /\ ncalls = 0
    /\ saved = {}
    /\ cm = NoMetrics

NextFrame ==
    \/ FrameworkSelectModel /\ UNCHANGED <<svars, uvars>>
    \/ FrameworkCreateModel /\ UNCHANGED <<svars, uvars>>
    \/ FrameworkCreateOptimizer /\ UNCHANGED <<svars, uvars>>
    \/ FrameworkCreateScheduler /\ UNCHANGED <<svars, uvars>>
    \/ OptimizeCall /\ UNCHANGED <<svars, uvars>>
    \/ OptimizeZeroGrad /\ UNCHANGED <<svars, uvars>>
    \/ OptimizeForward /\ UNCHANGED <<svars, uvars>>
    \/ OptimizeCalcLoss /\ UNCHANGED <<svars, uvars>>
    \/ OptimizeBackward /\ UNCHANGED <<svars, uvars>>
    \/ OptimizeStep /\ UNCHANGED <<svars, uvars>>
    \/ OptimizeReturn /\ UNCHANGED <<svars, uvars>>
    \/ Infer /\ UNCHANGED <<svars, uvars>>
    \/ Save /\ UNCHANGED <<svars, uvars>>
    \/ CalculateMetricsCall /\ UNCHANGED <<svars, uvars>>
    \/ CalculateMetricsNextMetric /\ UNCHANGED <<svars, uvars>>
    \/ CalculateMetricsNextBatch /\ UNCHANGED <<svars, uvars>>
    \/ CalculateMetricsNextChannel /\ UNCHANGED <<svars, uvars>>
    \/ CalculateMetricsReturn /\ UNCHANGED <<svars, uvars>>

SpecFrame == InitFrame /\ [][NextFrame]_vars

\* ---------------------------------------------------------------------------
\* Properties of slice_image
\* ---------------------------------------------------------------------------
H == img.shape[1]
W == img.shape[2]
TH == size[1]
TW == size[2]

\* ceil(a / b) by its definition: the least n with n * b >= a
CeilOf(a, b) == CHOOSE n \in 0..a : n * b >= a /\ \A m \in 0..a : m * b >= a => n <= m

\* the shape (th, tw[, C]) every tile is specified to have
TileShape == IF img.ndim = 2 THEN <<TH, TW>> ELSE <<TH, TW, img.shape[3]>>

\* the values of the input, and the values held by one tile
ImgValues == {img.data[r][c] : r \in 1..H, c \in 1..W}
TileValues(t) == {t.data[a][b] : a \in 1..t.shape[1], b \in 1..t.shape[2]}

\* Tile t is exactly the window of th rows from 0-based row r0 and tw
\* columns from 0-based column c0 of the input.
IsWindow(t, r0, c0) ==
    /\ t.shape = TileShape
    /\ r0 >= 0 /\ r0 + TH <= H
    /\ c0 >= 0 /\ c0 + TW <= W
    /\ \A a \in 1..TH : \A b \in 1..TW : t.data[a][b] = img.data[r0 + a][c0 + b]

\* the start, on an axis of length n with tile length t, of the window that
\* tile index k is specified to cover
SpecStart(n, t, k) == IF (k + 1) * t <= n THEN k * t ELSE n - t

\* C1: slice_image returns exactly ceil(H/th) * ceil(W/tw) tiles and every
\* tile has exactly th rows and tw columns (and all C channels), also when
\* H or W is not a multiple of the tile size.
C1_TileCountAndShape ==
    spc = "done" =>
        /\ Len(slices) = CeilOf(H, TH) * CeilOf(W, TW)
        /\ \A k \in 1..Len(slices) : slices[k].shape = TileShape

\* C2: in row-major order, element ii*cols + jj of the output is the window
\* rows [ii*th, (ii+1)*th) x columns [jj*tw, (jj+1)*tw) where it fits, and on
\* an axis where it does not fit the last th rows / last tw columns, ending
\* exactly at the array bound.
C2_RowMajorWindows ==
    spc = "done" =>
        LET rows == CeilOf(H, TH)
            cols == CeilOf(W, TW)
        IN /\ Len(slices) = rows * cols
           /\ \A ii \in 0..(rows - 1) : \A jj \in 0..(cols - 1) :
                 IsWindow(slices[ii * cols + jj + 1],
                          SpecStart(H, TH, ii), SpecStart(W, TW, jj))

\* the tile size fits into the array on both axes
TileFits == TH <= H /\ TW <= W

\* C1 and C2 restricted to arrays at least as large as the tile: there the
\* count, the shapes and the windows are as specified, and so is the
\* (1000, 1000) / (512, 512) example: 2 x 2 tiles, the last one from 488.
C1C2_WhenTileFits ==
    /\ TileFits => (C1_TileCountAndShape /\ C2_RowMajorWindows)
    /\ Ceil(1000, 512) = 2
    /\ SliceStart(1000, WindowStart(1000, 512, 1), WindowEnd(1000, 512, 1)) = 488
    /\ SliceLen(1000, WindowStart(1000, 512, 1), WindowEnd(1000, 512, 1)) = 512

\* C3: when H and W are exact multiples of the tile size, no pixel belongs
\* to two tiles and laying the tiles out in row-major order gives back the
\* input; when H = th and W = tw the output is the one tile that is the
\* whole array.
C3_ExactMultiplesPartition ==
    (spc = "done" /\ H % TH = 0 /\ W % TW = 0) =>
        LET rows == H \div TH
            cols == W \div TW
        IN /\ Len(slices) = rows * cols
           /\ \A k \in 1..Len(slices) : slices[k].shape = TileShape
           /\ \A k1 \in 1..Len(slices) : \A k2 \in 1..Len(slices) :
                 k1 # k2 => TileValues(slices[k1]) \cap TileValues(slices[k2]) = {}
           /\ \A r \in 0..(H - 1) : \A c \in 0..(W - 1) :
                 slices[(r \div TH) * cols + (c \div TW) + 1].data[(r % TH) + 1][(c % TW) + 1]
                     = img.data[r + 1][c + 1]
           /\ (H = TH /\ W = TW) =>
                 /\ Len(slices) = 1
                 /\ slices[1].data = img.data
                 /\ slices[1].shape = img.shape
                 /\ slices[1].r0 = 0 /\ slices[1].c0 = 0

\* a finished call on a 3-D image that is two tiles high and two tiles wide
C3_Witness ==
    /\ spc = "done"
    /\ img.ndim = 3
    /\ TH = 2 /\ H = 4
    /\ TW = 2 /\ W = 4
    /\ Len(slices) = 4

\* C4: the returned tiles cover the whole array (every pixel position lies
\* in at least one tile) and hold only values of the input: no padding.
C4_TilesCoverInput ==
    spc = "done" =>
        /\ \A r \in 1..H : \A c \in 1..W :
              \E k \in 1..Len(slices) : img.data[r][c] \in TileValues(slices[k])
        /\ \A k \in 1..Len(slices) : TileValues(slices[k]) \subseteq ImgValues

\* a finished call where neither dimension is a multiple of the tile size,
\* so the last row and the last column of tiles are shifted
C4_Witness ==
    /\ spc = "done"
    /\ H > TH /\ H % TH # 0
    /\ W > TW /\ W % TW # 0
    /\ Len(slices) >= 4

\* ---------------------------------------------------------------------------
\* Properties of the index and mask functions
\* ---------------------------------------------------------------------------
\* band 1 + band 4 == 0 at pixel p of the image of the call
ZeroDenominator(p) == ucall.img.data[1][p] + ucall.img.data[4][p] = 0

\* the returned array holds 0 (False) at pixel p
ReturnsZeroAt(p) ==
    IF uret.dtype = "bool" THEN uret.data[p] = 0
    ELSE uret.data[p] = <<0, 1>>

\* C5 (as stated): wherever band 1 + band 4 == 0 the output of
\* get_snow_index is 0 (False), with thresh None and with every threshold.
C5_ZeroDenominatorAlwaysZero ==
    ucall.fn = "get_snow_index" =>
        \A p \in Pixels : ZeroDenominator(p) => ReturnsZeroAt(p)

\* C5 (amended): wherever band 1 + band 4 == 0 the index is 0, so the output
\* is 0 when thresh is None and is the comparison 0 > thresh when a threshold
\* is passed: False for every thresh >= 0, True for a negative thresh; and no
\* pixel of the result holds nan or an infinity.
C5_ZeroDenominatorIndexZero ==
    ucall.fn = "get_snow_index" =>
        /\ \A p \in Pixels : ZeroDenominator(p) =>
              IF ucall.thresh.given
              THEN uret.data[p] = (IF ucall.thresh.tenths < 0 THEN 1 ELSE 0)
              ELSE uret.data[p] = <<0, 1>>
        /\ \A p \in Pixels : ZeroDenominator(p) =>
              ((~ucall.thresh.given \/ ucall.thresh.tenths >= 0) => ReturnsZeroAt(p))
        /\ uret.dtype # "bool" => \A p \in Pixels : uret.data[p][2] # 0

\* a thresholded call (0.6) on a float image with a pixel whose bands are
\* 1 and -1, next to a pixel with a nonzero sum
C5_Witness ==
    /\ ucall.fn = "get_snow_index"
    /\ ucall.img.dtype = "float"
    /\ ucall.thresh.given /\ ucall.thresh.tenths = 6
    /\ \E p \in Pixels :
          /\ ucall.img.data[1][p] = 1 /\ ucall.img.data[4][p] = 0 - 1
          /\ uret.data[p] = 0
    /\ \E p \in Pixels : ~ZeroDenominator(p) /\ uret.data[p] = 1

\* the foreground of the mask of the call at pixel p: set or not
ForegroundSet(p) ==
    IF ucall.mask.ndim = 2 THEN ucall.mask.data[p] # 0
    ELSE \E k \in DOMAIN ucall.mask.data[p] : ucall.mask.data[p][k] # 0

\* C6: get_bg returns two channels; channel 0 is the foreground (the mask
\* itself for a 2-D mask, the OR over the last axis for a 3-D mask), channel
\* 1 its negation, so every pixel is set in exactly one channel; for an
\* all-zero 2-D mask channel 0 is all False and channel 1 all True.
C6_GetBgOneHot ==
    ucall.fn = "get_bg" =>
        /\ Len(uret.data) = 2
        /\ ucall.mask.ndim = 2 => uret.data[1] = ucall.mask.data
        /\ \A p \in Pixels :
              /\ (uret.data[1][p] # 0) <=> ForegroundSet(p)
              /\ uret.data[2][p] = (IF uret.data[1][p] # 0 THEN 0 ELSE 1)
              /\ (uret.data[1][p] # 0) # (uret.data[2][p] # 0)
        /\ (ucall.mask.ndim = 2 /\ \A p \in Pixels : ucall.mask.data[p] = 0) =>
              \A p \in Pixels : uret.data[1][p] = 0 /\ uret.data[2][p] = 1

\* get_bg on a 3-D mask with two channels, one pixel set in one channel
\* only and one pixel set in none
C6_Witness ==
    /\ ucall.fn = "get_bg"
    /\ ucall.mask.ndim = 3
    /\ \E p \in Pixels : ucall.mask.data[p] = <<0, 1>> /\ uret.data[1][p] = 1
    /\ \E p \in Pixels : ucall.mask.data[p] = <<0, 0>> /\ uret.data[2][p] = 1

\* the thresholded snow index of the call is True at pixel p
SnowTrue(p) == get_snow_index(ucall.img, ucall.thresh).data[p] = 1

\* C8: with a threshold, merge_mask_snow_i yields a value in {0, 1, 2}: 1
\* exactly where the snow index is true and the mask is 1, 2 exactly where
\* it is false and the mask is 1, 0 wherever the mask is not 1; and
\* get_debris_glaciers on the same arguments yields a value in {0, 1} that
\* is 1 exactly where merge_mask_snow_i is 2.
C8_HybridClasses ==
    (ucall.fn = "merge_mask_snow_i" /\ ucall.thresh.given) =>
        LET debris == get_debris_glaciers(ucall.img, ucall.mask, ucall.thresh)
        IN \A p \in Pixels :
              /\ uret.data[p] \in {0, 1, 2}
              /\ (uret.data[p] = 1) <=> (SnowTrue(p) /\ ucall.mask.data[p] = 1)
              /\ (uret.data[p] = 2) <=> (~SnowTrue(p) /\ ucall.mask.data[p] = 1)
              /\ (ucall.mask.data[p] # 1) => uret.data[p] = 0
              /\ debris.data[p] \in {0, 1}
              /\ (debris.data[p] = 1) <=> (uret.data[p] = 2)

\* C8 on integer class masks only
C8_HybridClassesIntMask ==
    ucall.mask.dtype = "int" => C8_HybridClasses

\* ---------------------------------------------------------------------------
\* Properties of Framework
\* ---------------------------------------------------------------------------
\* C7: a model name other than "Unet" and "UnetDropout" fails with 'Unknown
\* model name' before any model, optimizer or LR scheduler exists and
\* nothing is built afterwards; a recognized name never raises it and
\* selects Unet of the unet module or UnetDropout of the unet_dropout module.
C7_UnknownModelName ==
    fpc \notin {"none", "new"} =>
        IF opts.name \in {"Unet", "UnetDropout"}
        THEN /\ ferror = "none"
             /\ fpc # "failed"
             /\ opts.name = "Unet" => self.model_def = "src.models.unet.Unet"
             /\ opts.name = "UnetDropout" =>
                   self.model_def = "src.models.unet_dropout.UnetDropout"
        ELSE /\ fpc = "failed"
             /\ ferror = "ValueError: Unknown model name"
             /\ self.model_def = "none"
             /\ ~self.model /\ ~self.optimizer /\ ~self.lrscheduler

\* the constructor has raised for the name "FPN"
C7_Witness ==
    /\ fpc = "failed"
    /\ opts.name = "FPN"
    /\ ferror = "ValueError: Unknown model name"

\* the positions of optimize before its optimizer step
BeforeStep == {"opt_called", "opt_zeroed", "opt_forward", "opt_loss", "opt_backward"}

C10_EveryMetricEveryPair ==
    (fpc = "metrics" /\ cm.pc \in {"done", "raised"}) =>
        /\ cm.pc = "done"
        /\ \A m \in 1..Len(opts.metrics) :
              /\ \A b \in 1..cm.arg[1] : \A c \in 1..cm.arg[2] :
                    \E e \in 1..Len(cm.evals) :
                       cm.evals[e] = [metric |-> m, b |-> b, c |-> c, depth |-> 2]
              /\ \E r \in 1..Len(cm.results) : cm.results[r].metric = m

====
